---- MODULE Spec2Model ----
(***************************************************************************)
(* Metronome of src/app/(index)/index.tsx.  The file holds two versions of *)
(* the screen: the first (lines 1-466) arms its timer inside togglePlay,   *)
(* the final one (lines 468-964) arms it in a useEffect.                   *)
(*                                                                         *)
(* Numbers.  subdivisionMultiplier / timeSignature.bottom is a fraction    *)
(* whose denominator divides the largest bottom (8), so every tick index,  *)
(* accent index and subdivision count of the program is a multiple of 1/8  *)
(* and the JavaScript doubles holding them are exact.  The model stores    *)
(* each of them as the integer number of eighths: Fix(1) = 8 stands for 1, *)
(* 4 for 0.5, -8 for -1.                                                   *)
(*                                                                         *)
(* Rendering.  A press handler's state updates are committed in one render *)
(* and the effects of that render run before the next event is handled, so *)
(* an action here is the handler together with the effect run it causes.   *)
(***************************************************************************)
EXTENDS Integers, FiniteSets, Sequences, TLC

VARIABLES
    variant,          \* "first" or "final": which version of IndexRoute runs
    bpm,
    timeSignature,
    subdivision,
    isPlaying,
    currentBeat,      \* in eighths; -Fix(1) when no tick is shown
    accents,          \* set of indices, in eighths
    intervalRef,      \* intervalRef.current: a timer handle, 0 for null
    timers,           \* the live setInterval timers: handle -> captured closure
    click,            \* the playSound call of the last step: "none", "click", "accent"
    lastOp,           \* the handler or callback that ran last
    ticksSinceStart,  \* timer fires since start() with no user event between, -1 otherwise
    audioEnv,         \* "ok", or "faulty" when the audio backend may be missing or throw
    audio,            \* how the playSound call of the last step ended, "none" without a call
    probe             \* argument and result of a direct call of getSubdivisionPattern

vars == <<variant, bpm, timeSignature, subdivision, isPlaying, currentBeat,
          accents, intervalRef, timers, click, lastOp, ticksSinceStart,
          audioEnv, audio, probe>>

-----------------------------------------------------------------------------
(* Bounds of the model *)

MaxAccents == 1
MaxHandles == 2
MaxBeatIndex == 24
MaxToggleTop == 4
MaxBpmDrift == 1

Handles == 1..MaxHandles

-----------------------------------------------------------------------------
(* Module-level tables and functions *)

Range(s) == {s[i] : i \in DOMAIN s}

TIME_SIGNATURES ==
    << [top |-> 2, bottom |-> 4],
       [top |-> 3, bottom |-> 4],
       [top |-> 4, bottom |-> 4],
       [top |-> 5, bottom |-> 4],
       [top |-> 6, bottom |-> 8],
       [top |-> 7, bottom |-> 8],
       [top |-> 9, bottom |-> 8],
       [top |-> 12, bottom |-> 8] >>

SUBDIVISIONS ==
    << "whole", "half", "quarter", "eighth", "sixteenth",
       "eighth-sixteenth-sixteenth", "sixteenth-sixteenth-eighth" >>

getSubdivisionMultiplier(sub) ==
    CASE sub = "whole" -> 1
      [] sub = "half" -> 2
      [] sub = "quarter" -> 4
      [] sub = "eighth" -> 8
      [] sub = "sixteenth" -> 16
      [] sub = "eighth-sixteenth-sixteenth" -> 16
      [] sub = "sixteenth-sixteenth-eighth" -> 16

\* The fixed-point unit: the largest bottom of TIME_SIGNATURES.
Unit ==
    CHOOSE b \in {sig.bottom : sig \in Range(TIME_SIGNATURES)} :
        \A sig \in Range(TIME_SIGNATURES) : sig.bottom <= b

Fix(n) == n * Unit

IsInteger(x) == x % Unit = 0

\* JavaScript's a % n for a >= 0 and n > 0, on eighths.
JsMod(a, n) == a % n

\* subdivisionMultiplier / timeSignature.bottom, in eighths.
subdivisionsPerBeatOf(sig, sub) ==
    getSubdivisionMultiplier(sub) * (Unit \div sig.bottom)

\* beatsPerMeasure * (subdivisionMultiplier / timeSignature.bottom), in eighths.
totalSubdivisionsOf(sig, sub) == sig.top * subdivisionsPerBeatOf(sig, sub)

\* 60000 / bpm / (subdivisionMultiplier / timeSignature.bottom) as the
\* fraction num / den.  num is the same for every configuration, so two
\* intervals are equal exactly when the records are.
intervalMsOf(b, sig, sub) ==
    [num |-> 60000 * Unit, den |-> b * subdivisionsPerBeatOf(sig, sub)]

getSubdivisionPattern_wrongMask(sub, beatIndex, totalBeats) ==
    IF sub = "eighth-sixteenth-sixteenth"
    THEN LET posInGroup == JsMod(beatIndex, Fix(4))
         IN posInGroup = Fix(0) \/ posInGroup = Fix(1) \/ posInGroup = Fix(3)
    ELSE IF sub = "sixteenth-sixteenth-eighth"
    THEN LET posInGroup == JsMod(beatIndex, Fix(4))
         IN posInGroup = Fix(0) \/ posInGroup = Fix(1) \/ posInGroup = Fix(2)
    ELSE TRUE

getSubdivisionPattern(sub, beatIndex, totalBeats) ==
    IF sub = "eighth-sixteenth-sixteenth"
    THEN LET posInGroup == JsMod(beatIndex, Fix(4))
         IN posInGroup = Fix(0) \/ posInGroup = Fix(2) \/ posInGroup = Fix(3)
    ELSE IF sub = "sixteenth-sixteenth-eighth"
    THEN LET posInGroup == JsMod(beatIndex, Fix(4))
         IN posInGroup = Fix(0) \/ posInGroup = Fix(1) \/ posInGroup = Fix(2)
    ELSE TRUE

\* The call playSound(isAccent), as the sound it asks for.
playSound(isAccent) == IF isAccent THEN "accent" ELSE "click"

\* What the audio backend does at one playSound call.
AudioOutcomes ==
    IF audioEnv = "ok" THEN {"played"} ELSE {"played", "noContext", "throws"}

playSoundOutcome_noCatch(outcome) ==
    CASE outcome = "played" -> "played"
      [] outcome = "noContext" -> "silent"
      [] outcome = "throws" -> "thrown"

\* How playSound ends: it returns after the sound started ("played"), returns
\* early without audio context or player ("silent"), or catches and logs what
\* the backend threw ("logged").  It never throws ("thrown").
playSoundOutcome(outcome) ==
    CASE outcome = "played" -> "played"
      [] outcome = "noContext" -> "silent"
      [] outcome = "throws" -> "logged"

-----------------------------------------------------------------------------
(* Values derived on every render *)

beatsPerMeasure == timeSignature.top

subdivisionMultiplier == getSubdivisionMultiplier(subdivision)

totalSubdivisions == totalSubdivisionsOf(timeSignature, subdivision)

intervalMs == intervalMsOf(bpm, timeSignature, subdivision)

-----------------------------------------------------------------------------
(* Timers *)

clearInterval(tm, h) == [k \in (DOMAIN tm) \ {h} |-> tm[k]]

FreeHandles(tm) == Handles \ DOMAIN tm

\* The handle setInterval returns: the lowest one not in use.
NewHandle(tm) == CHOOSE h \in FreeHandles(tm) : \A k \in FreeHandles(tm) : h <= k

\* What the callback passed to setInterval closes over.
Closure ==
    [interval |-> intervalMs, total |-> totalSubdivisions,
     subdivision |-> subdivision, accents |-> accents, beat |-> Fix(0)]

-----------------------------------------------------------------------------
(* The timer effect of the final version *)

DepsChanged_noIntervalMs(accentsReplaced) ==
    \/ accentsReplaced
    \/ isPlaying' # isPlaying
    \/ totalSubdivisions' # totalSubdivisions
    \/ subdivision' # subdivision

DepsChanged_onlyTiming(accentsReplaced) ==
    \/ intervalMs' # intervalMs
    \/ isPlaying' # isPlaying

DepsChanged_noAccents(accentsReplaced) ==
    \/ intervalMs' # intervalMs
    \/ isPlaying' # isPlaying
    \/ totalSubdivisions' # totalSubdivisions
    \/ subdivision' # subdivision

\* The dependency array [intervalMs, isPlaying, totalSubdivisions,
\* subdivision, accents] differs from that of the previous render.  accents
\* is compared by identity, and every setAccents call passes a new Set.
DepsChanged(accentsReplaced) ==
    \/ accentsReplaced
    \/ intervalMs' # intervalMs
    \/ isPlaying' # isPlaying
    \/ totalSubdivisions' # totalSubdivisions
    \/ subdivision' # subdivision

useEffectTimer_noCleanup(changed) ==
    IF ~changed
    THEN UNCHANGED <<intervalRef, timers>>
    ELSE IF isPlaying'
         THEN LET cleared == IF intervalRef # 0
                             THEN clearInterval(timers, intervalRef)
                             ELSE timers
              IN /\ FreeHandles(cleared) # {}
                 /\ timers' = cleared @@ (NewHandle(cleared) :> Closure')
                 /\ intervalRef' = NewHandle(cleared)
         ELSE UNCHANGED <<intervalRef, timers>>

useEffectTimer_neverClears(changed) ==
    IF ~changed
    THEN UNCHANGED <<intervalRef, timers>>
    ELSE IF isPlaying'
         THEN /\ FreeHandles(timers) # {}
              /\ timers' = timers @@ (NewHandle(timers) :> Closure')
              /\ intervalRef' = NewHandle(timers)
         ELSE LET cleaned == IF intervalRef # 0
                             THEN clearInterval(timers, intervalRef)
                             ELSE timers
              IN /\ timers' = cleaned
                 /\ intervalRef' = intervalRef

\* One run of the effect after a render whose dependencies changed: the
\* cleanup of the previous run, then the body with the new render's values.
useEffectTimer(changed) ==
    IF ~changed
    THEN UNCHANGED <<intervalRef, timers>>
    ELSE LET cleaned == IF intervalRef # 0
                        THEN clearInterval(timers, intervalRef)
                        ELSE timers
         IN IF isPlaying'
            THEN LET cleared == IF intervalRef # 0
                                THEN clearInterval(cleaned, intervalRef)
                                ELSE cleaned
                 IN /\ FreeHandles(cleared) # {}
                    /\ timers' = cleared @@ (NewHandle(cleared) :> Closure')
                    /\ intervalRef' = NewHandle(cleared)
            ELSE /\ timers' = cleaned
                 /\ intervalRef' = intervalRef

-----------------------------------------------------------------------------
(* Handlers of the final version *)

togglePlay_startAtMinusOne ==
    /\ variant = "final"
    /\ IF isPlaying
       THEN /\ currentBeat' = -Fix(1)
            /\ isPlaying' = FALSE
            /\ click' = "none"
            /\ audio' = "none"
            /\ lastOp' = "stop"
            /\ ticksSinceStart' = -1
       ELSE /\ currentBeat' = -Fix(1)
            /\ click' = IF getSubdivisionPattern(subdivision, Fix(0), totalSubdivisions)
                        THEN playSound(Fix(0) \in accents)
                        ELSE "none"
            /\ \E o \in AudioOutcomes :
                  audio' = IF click' = "none" THEN "none" ELSE playSoundOutcome(o)
            /\ isPlaying' = TRUE
            /\ lastOp' = "start"
            /\ ticksSinceStart' = 0
    /\ UNCHANGED <<variant, audioEnv, bpm, timeSignature, subdivision, accents, probe>>
    /\ useEffectTimer(DepsChanged(FALSE))

togglePlay ==
    /\ variant = "final"
    /\ IF isPlaying
       THEN /\ currentBeat' = -Fix(1)
            /\ isPlaying' = FALSE
            /\ click' = "none"
            /\ audio' = "none"
            /\ lastOp' = "stop"
            /\ ticksSinceStart' = -1
       ELSE /\ currentBeat' = Fix(0)
            /\ click' = IF getSubdivisionPattern(subdivision, Fix(0), totalSubdivisions)
                        THEN playSound(Fix(0) \in accents)
                        ELSE "none"
            /\ \E o \in AudioOutcomes :
                  audio' = IF click' = "none" THEN "none" ELSE playSoundOutcome(o)
            /\ isPlaying' = TRUE
            /\ lastOp' = "start"
            /\ ticksSinceStart' = 0
    /\ UNCHANGED <<variant, audioEnv, bpm, timeSignature, subdivision, accents, probe>>
    /\ useEffectTimer(DepsChanged(FALSE))

nextBeatOf_noWrap(prevBeat, total) == prevBeat + Fix(1)

\* const nextBeat = (prevBeat + 1) % totalSubdivisions
nextBeatOf(prevBeat, total) == JsMod(prevBeat + Fix(1), total)

\* The callback of the armed timer h, with the updater it passes to
\* setCurrentBeat.  currentBeat is no dependency of the effect.
Tick(h) ==
    /\ variant = "final"
    /\ h \in DOMAIN timers
    /\ LET c == timers[h]
           nextBeat == nextBeatOf(currentBeat, c.total)
       IN /\ click' = IF getSubdivisionPattern(c.subdivision, nextBeat, c.total)
                      THEN playSound(nextBeat \in c.accents)
                      ELSE "none"
          /\ \E o \in AudioOutcomes :
                audio' = IF click' = "none" THEN "none" ELSE playSoundOutcome(o)
          \* the updater returns nextBeat unless playSound threw inside it
          /\ currentBeat' = IF audio' = "thrown" THEN currentBeat ELSE nextBeat
    /\ lastOp' = "tick"
    /\ ticksSinceStart' = IF ticksSinceStart >= 0 /\ Fix(ticksSinceStart) < totalSubdivisions
                          THEN ticksSinceStart + 1
                          ELSE -1
    /\ UNCHANGED <<variant, audioEnv, bpm, timeSignature, subdivision, isPlaying, accents,
                   intervalRef, timers, probe>>

\* Slider onValueChange={setBpm}; the slider reports values of its range.
SliderChange(v) ==
    /\ variant = "final"
    /\ bpm' = v
    /\ click' = "none"
    /\ audio' = "none"
    /\ lastOp' = "bpm"
    /\ ticksSinceStart' = -1
    /\ UNCHANGED <<variant, audioEnv, timeSignature, subdivision, isPlaying, currentBeat,
                   accents, probe>>
    /\ useEffectTimer(DepsChanged(FALSE))

SelectTimeSignature_keepBeat(sig) ==
    /\ variant = "final"
    /\ timeSignature' = sig
    /\ accents' = {Fix(0)}
    /\ currentBeat' = currentBeat
    /\ click' = "none"
    /\ audio' = "none"
    /\ lastOp' = "sig"
    /\ ticksSinceStart' = -1
    /\ UNCHANGED <<variant, audioEnv, bpm, subdivision, isPlaying, probe>>
    /\ useEffectTimer(DepsChanged(TRUE))

SelectTimeSignature(sig) ==
    /\ variant = "final"
    /\ timeSignature' = sig
    /\ accents' = {Fix(0)}
    /\ currentBeat' = -Fix(1)
    /\ click' = "none"
    /\ audio' = "none"
    /\ lastOp' = "sig"
    /\ ticksSinceStart' = -1
    /\ UNCHANGED <<variant, audioEnv, bpm, subdivision, isPlaying, probe>>
    /\ useEffectTimer(DepsChanged(TRUE))

SelectSubdivision(sub) ==
    /\ variant = "final"
    /\ subdivision' = sub
    /\ accents' = {Fix(0)}
    /\ currentBeat' = -Fix(1)
    /\ click' = "none"
    /\ audio' = "none"
    /\ lastOp' = "sub"
    /\ ticksSinceStart' = -1
    /\ UNCHANGED <<variant, audioEnv, bpm, timeSignature, isPlaying, probe>>
    /\ useEffectTimer(DepsChanged(TRUE))

toggleAccent_addOnly(acc, beat) == acc \cup {beat}

toggleAccent(acc, beat) ==
    IF beat \in acc THEN acc \ {beat} ELSE acc \cup {beat}

TapBeat_rawIndex(i) ==
    /\ variant = "final"
    /\ i \in 0..(beatsPerMeasure - 1)
    /\ Fix(i) \in accents \/ Cardinality(accents) < MaxAccents
    /\ accents' = toggleAccent(accents, Fix(i))
    /\ click' = "none"
    /\ audio' = "none"
    /\ lastOp' = "accent"
    /\ ticksSinceStart' = -1
    /\ UNCHANGED <<variant, audioEnv, bpm, timeSignature, subdivision, isPlaying,
                   currentBeat, probe>>
    /\ useEffectTimer(DepsChanged(TRUE))

\* Press on beat indicator i (0-based): toggleAccent(beatStartIndex).
TapBeat(i) ==
    /\ variant = "final"
    /\ i \in 0..(beatsPerMeasure - 1)
    /\ LET subdivisionsPerBeat == subdivisionsPerBeatOf(timeSignature, subdivision)
           beatStartIndex == i * subdivisionsPerBeat
       IN /\ beatStartIndex \in accents \/ Cardinality(accents) < MaxAccents
          /\ accents' = toggleAccent(accents, beatStartIndex)
    /\ click' = "none"
    /\ audio' = "none"
    /\ lastOp' = "accent"
    /\ ticksSinceStart' = -1
    /\ UNCHANGED <<variant, audioEnv, bpm, timeSignature, subdivision, isPlaying,
                   currentBeat, probe>>
    /\ useEffectTimer(DepsChanged(TRUE))

-----------------------------------------------------------------------------
(* The final version as a state machine *)

MinimumValue == 20
MaximumValue == 300

SliderRange == MinimumValue..MaximumValue

\* The slider positions the model tries.
SliderValues == {MinimumValue, MaximumValue}

NoProbe == [subdivision |-> "quarter", beatIndex |-> Fix(0), result |-> "unset"]

InitOf(v) ==
    /\ variant = v
    /\ bpm = 120
    /\ timeSignature = [top |-> 4, bottom |-> 4]
    /\ subdivision = "quarter"
    /\ isPlaying = FALSE
    /\ currentBeat = -Fix(1)
    /\ accents = {Fix(0)}
    /\ intervalRef = 0
    /\ timers = <<>>
    /\ click = "none"
    /\ audio = "none"
    /\ lastOp = "init"
    /\ ticksSinceStart = -1

Init == InitOf("final") /\ audioEnv = "ok" /\ probe = NoProbe

Next ==
    \/ togglePlay
    \/ \E h \in Handles : Tick(h)
    \/ \E v \in SliderValues : SliderChange(v)
    \/ \E sig \in Range(TIME_SIGNATURES) : SelectTimeSignature(sig)
    \/ \E sub \in Range(SUBDIVISIONS) : SelectSubdivision(sub)
    \/ \E i \in 0..(beatsPerMeasure - 1) : TapBeat(i)

Spec == Init /\ [][Next]_vars

-----------------------------------------------------------------------------
(* The final version with an audio backend that can fail *)

InitAudio == InitOf("final") /\ audioEnv = "faulty" /\ probe = NoProbe

\* The time signatures tried with the failing backend: 3/4, 4/4 and 6/8.
AudioSignatures == {TIME_SIGNATURES[2], TIME_SIGNATURES[3], TIME_SIGNATURES[5]}

NextAudio ==
    \/ togglePlay
    \/ \E h \in Handles : Tick(h)
    \/ \E v \in SliderValues : SliderChange(v)
    \/ \E sig \in AudioSignatures : SelectTimeSignature(sig)
    \/ \E sub \in Range(SUBDIVISIONS) : SelectSubdivision(sub)
    \/ \E i \in 0..(beatsPerMeasure - 1) : TapBeat(i)

SpecAudio == InitAudio /\ [][NextAudio]_vars

-----------------------------------------------------------------------------
(* Handlers of the first version *)

adjustBpm_noUpperClamp(prev, delta) ==
    IF prev + delta < 20 THEN 20 ELSE prev + delta

\* Math.max(20, Math.min(300, prev + delta))
adjustBpm(prev, delta) ==
    LET capped == IF prev + delta < 300 THEN prev + delta ELSE 300
    IN IF capped > 20 THEN capped ELSE 20

\* The four tempo buttons.
BpmDeltas == {-10, -1, 1, 10}

AdjustBpm(delta) ==
    /\ variant = "first"
    /\ bpm' = adjustBpm(bpm, delta)
    /\ click' = "none"
    /\ audio' = "none"
    /\ lastOp' = "bpm"
    /\ ticksSinceStart' = -1
    /\ UNCHANGED <<variant, audioEnv, timeSignature, subdivision, isPlaying, currentBeat,
                   accents, intervalRef, timers, probe>>

togglePlayV1 ==
    /\ variant = "first"
    /\ IF isPlaying
       THEN /\ IF intervalRef # 0
               THEN /\ timers' = clearInterval(timers, intervalRef)
                    /\ intervalRef' = 0
               ELSE UNCHANGED <<intervalRef, timers>>
            /\ currentBeat' = -Fix(1)
            /\ isPlaying' = FALSE
            /\ click' = "none"
            /\ audio' = "none"
            /\ lastOp' = "stop"
            /\ ticksSinceStart' = -1
       ELSE /\ currentBeat' = Fix(0)
            /\ click' = playSound(Fix(0) \in accents)
            /\ \E o \in AudioOutcomes : audio' = playSoundOutcome(o)
            /\ FreeHandles(timers) # {}
            /\ timers' = timers @@ (NewHandle(timers) :> Closure)
            /\ intervalRef' = NewHandle(timers)
            /\ isPlaying' = TRUE
            /\ lastOp' = "start"
            /\ ticksSinceStart' = 0
    /\ UNCHANGED <<variant, audioEnv, bpm, timeSignature, subdivision, accents, probe>>

\* The callback of timer h: beat is the callback's own counter; totalSubdivisions
\* and accents are those of the render in which togglePlay ran.
TickV1(h) ==
    /\ variant = "first"
    /\ h \in DOMAIN timers
    /\ LET c == timers[h]
           beat == JsMod(c.beat + Fix(1), c.total)
       IN /\ timers' = [timers EXCEPT ![h].beat = beat]
          /\ currentBeat' = beat
          /\ click' = playSound(beat \in c.accents)
    /\ \E o \in AudioOutcomes : audio' = playSoundOutcome(o)
    /\ lastOp' = "tick"
    /\ ticksSinceStart' = IF ticksSinceStart >= 0 /\ Fix(ticksSinceStart) < totalSubdivisions
                          THEN ticksSinceStart + 1
                          ELSE -1
    /\ UNCHANGED <<variant, audioEnv, bpm, timeSignature, subdivision, isPlaying, accents,
                   intervalRef, probe>>

SelectTimeSignatureV1(sig) ==
    /\ variant = "first"
    /\ timeSignature' = sig
    /\ accents' = {Fix(0)}
    /\ currentBeat' = -Fix(1)
    /\ click' = "none"
    /\ audio' = "none"
    /\ lastOp' = "sig"
    /\ ticksSinceStart' = -1
    /\ UNCHANGED <<variant, audioEnv, bpm, subdivision, isPlaying, intervalRef, timers, probe>>

SelectSubdivisionV1(sub) ==
    /\ variant = "first"
    /\ subdivision' = sub
    /\ accents' = {Fix(0)}
    /\ currentBeat' = -Fix(1)
    /\ click' = "none"
    /\ audio' = "none"
    /\ lastOp' = "sub"
    /\ ticksSinceStart' = -1
    /\ UNCHANGED <<variant, audioEnv, bpm, timeSignature, isPlaying, intervalRef, timers, probe>>

\* Press on indicator i of Array.from({ length: totalSubdivisions }): toggleAccent(i).
TapBeatV1(i) ==
    /\ variant = "first"
    /\ i \in 0..((totalSubdivisions \div Unit) - 1)
    /\ Fix(i) \in accents \/ Cardinality(accents) < MaxAccents
    /\ accents' = toggleAccent(accents, Fix(i))
    /\ click' = "none"
    /\ audio' = "none"
    /\ lastOp' = "accent"
    /\ ticksSinceStart' = -1
    /\ UNCHANGED <<variant, audioEnv, bpm, timeSignature, subdivision, isPlaying,
                   currentBeat, intervalRef, timers, probe>>

-----------------------------------------------------------------------------
(* The first version as a state machine *)

InitialBpm == 120

\* The selections and tempi tried: 3/4 and 4/4, quarter and eighth, and the
\* tempi within MaxBpmDrift of the initial one.
SignaturesV1 == {TIME_SIGNATURES[2], TIME_SIGNATURES[3]}

SubdivisionsV1 == {SUBDIVISIONS[3], SUBDIVISIONS[4]}

BpmWindowV1 == (InitialBpm - MaxBpmDrift)..(InitialBpm + MaxBpmDrift)

InitV1 == InitOf("first") /\ audioEnv = "ok" /\ probe = NoProbe

NextV1 ==
    \/ togglePlayV1
    \/ \E h \in Handles : TickV1(h)
    \/ \E delta \in BpmDeltas : adjustBpm(bpm, delta) \in BpmWindowV1 /\ AdjustBpm(delta)
    \/ \E sig \in SignaturesV1 : SelectTimeSignatureV1(sig)
    \/ \E sub \in SubdivisionsV1 : SelectSubdivisionV1(sub)
    \/ \E i \in 0..((totalSubdivisions \div Unit) - 1) : TapBeatV1(i)

SpecV1 == InitV1 /\ [][NextV1]_vars

-----------------------------------------------------------------------------
(* Tempo inputs of both versions *)

InitBpm ==
    (\E v \in {"first", "final"} : InitOf(v)) /\ audioEnv = "ok" /\ probe = NoProbe

NextBpm ==
    \/ \E delta \in BpmDeltas : AdjustBpm(delta)
    \/ togglePlayV1
    \/ \E v \in SliderRange : SliderChange(v)
    \/ togglePlay

SpecBpm == InitBpm /\ [][NextBpm]_vars

-----------------------------------------------------------------------------
(* getSubdivisionPattern called on its own *)

InitPattern ==
    /\ InitOf("final")
    /\ audioEnv = "ok"
    /\ \E sub \in Range(SUBDIVISIONS), i \in 0..MaxBeatIndex :
          probe = [subdivision |-> sub, beatIndex |-> Fix(i), result |-> "unset"]

CallPattern ==
    /\ probe.result = "unset"
    /\ probe' = [probe EXCEPT !.result =
                    IF getSubdivisionPattern(probe.subdivision, probe.beatIndex,
                                             totalSubdivisionsOf(timeSignature, probe.subdivision))
                    THEN "true" ELSE "false"]
    /\ lastOp' = "probe"
    /\ UNCHANGED <<variant, audioEnv, bpm, timeSignature, subdivision, isPlaying, currentBeat,
                   accents, intervalRef, timers, click, audio, ticksSinceStart>>

SpecPattern == InitPattern /\ [][CallPattern]_vars

-----------------------------------------------------------------------------
(* One beat indicator pressed twice, from any accent set *)

\* The indices the beat indicators of a selection toggle.
BeatStartIndices(sig, sub) ==
    {i * subdivisionsPerBeatOf(sig, sub) : i \in 0..(sig.top - 1)}

\* Stopped, with a time signature of at most MaxToggleTop beats, any
\* subdivision and any set of accents the indicators can produce; probe names
\* the indicator to press and keeps the accent set to compare with.
InitToggle ==
    /\ variant = "final"
    /\ audioEnv = "ok"
    /\ bpm = 120
    /\ timeSignature \in {sig \in Range(TIME_SIGNATURES) : sig.top <= MaxToggleTop}
    /\ subdivision \in Range(SUBDIVISIONS)
    /\ isPlaying = FALSE
    /\ currentBeat = -Fix(1)
    /\ accents \in SUBSET BeatStartIndices(timeSignature, subdivision)
    /\ intervalRef = 0
    /\ timers = <<>>
    /\ click = "none"
    /\ audio = "none"
    /\ lastOp = "init"
    /\ ticksSinceStart = -1
    /\ \E i \in 0..(timeSignature.top - 1) :
          probe = [origin |-> accents, indicator |-> i, presses |-> 0]

\* Press on beat indicator probe.indicator: toggleAccent(beatStartIndex).
TapProbe ==
    /\ variant = "final"
    /\ probe.presses < 2
    /\ LET subdivisionsPerBeat == subdivisionsPerBeatOf(timeSignature, subdivision)
           beatStartIndex == probe.indicator * subdivisionsPerBeat
       IN accents' = toggleAccent(accents, beatStartIndex)
    /\ probe' = [probe EXCEPT !.presses = @ + 1]
    /\ click' = "none"
    /\ audio' = "none"
    /\ lastOp' = "accent"
    /\ ticksSinceStart' = -1
    /\ UNCHANGED <<variant, audioEnv, bpm, timeSignature, subdivision, isPlaying,
                   currentBeat>>
    /\ useEffectTimer(DepsChanged(TRUE))

SpecToggle == InitToggle /\ [][TapProbe]_vars

-----------------------------------------------------------------------------
(* Properties *)

\* The periods of the armed timers.
ArmedPeriods == {timers[h].interval : h \in DOMAIN timers}

\* The playSound call a tick index asks for under the selection and accent
\* set of the current state.
ExpectedClick(beat) ==
    IF getSubdivisionPattern(subdivision, beat, totalSubdivisions)
    THEN (IF beat \in accents THEN "accent" ELSE "click")
    ELSE "none"

\* C1: for the selected time signature and subdivision, totalSubdivisions is
\* a positive integer.
C1_TotalIsPositiveInteger ==
    totalSubdivisions > 0 /\ IsInteger(totalSubdivisions)

\* C2: a bpm change while Running leaves exactly the timers whose period is
\* intervalMs of the new bpm, and leaves currentBeat as it was.
C2_BpmChangeIsLive ==
    [][(lastOp' = "bpm" /\ isPlaying) =>
         /\ isPlaying'
         /\ currentBeat' = currentBeat
         /\ ArmedPeriods' = {intervalMsOf(bpm', timeSignature, subdivision)}]_vars

C2_Witness ==
    /\ lastOp = "bpm"
    /\ isPlaying
    /\ bpm = MaximumValue
    /\ currentBeat = Fix(2)
    /\ ArmedPeriods = {intervalMsOf(MaximumValue, timeSignature, subdivision)}

\* C3: right after a time signature or a subdivision is selected, Stopped or
\* Running, currentBeat is -1 and the accent set is {0}.
C3_SelectionResets ==
    lastOp \in {"sig", "sub"} => currentBeat = -Fix(1) /\ accents = {Fix(0)}

C3_Witness ==
    /\ lastOp = "sig"
    /\ isPlaying
    /\ timeSignature = [top |-> 7, bottom |-> 8]
    /\ currentBeat = -Fix(1)
    /\ accents = {Fix(0)}

\* C4: after start() and exactly totalSubdivisions timer fires with no user
\* event between, currentBeat is 0 again.
C4_WrapAfterOneMeasure ==
    (ticksSinceStart > 0 /\ Fix(ticksSinceStart) = totalSubdivisions)
        => currentBeat = Fix(0)

C4_Witness ==
    /\ lastOp = "tick"
    /\ ticksSinceStart >= 3
    /\ Fix(ticksSinceStart) = totalSubdivisions
    /\ currentBeat = Fix(0)

\* C5: every element of the accent set is an integer index i with
\* 0 <= i < totalSubdivisions.
C5_AccentsAreIndices ==
    \A a \in accents : IsInteger(a) /\ Fix(0) <= a /\ a < totalSubdivisions

\* C6: a timer fire while Running sets currentBeat to
\* (currentBeat + 1) mod totalSubdivisions and calls playSound exactly when
\* that tick is audible under the selected subdivision, accented exactly when
\* the tick is in the accent set.
C6_TickAdvancesAndClicks ==
    [][lastOp' = "tick" =>
         /\ isPlaying
         /\ currentBeat' = JsMod(currentBeat + Fix(1), totalSubdivisions)
         /\ click' = ExpectedClick(currentBeat')]_vars

C6_Witness ==
    /\ lastOp = "tick"
    /\ isPlaying
    /\ subdivision = "sixteenth-sixteenth-eighth"
    /\ currentBeat = Fix(3)
    /\ click = "none"

\* C7: start() goes from Stopped to Running with currentBeat 0, calls
\* playSound(0 in accents) exactly when tick 0 is audible, and arms one timer
\* of period intervalMs; the first fire after it shows tick 1 mod
\* totalSubdivisions.
C7_StartPlaysTickZero ==
    [][/\ lastOp' = "start" =>
            /\ ~isPlaying
            /\ isPlaying'
            /\ currentBeat' = Fix(0)
            /\ click' = ExpectedClick(Fix(0))
            /\ Cardinality(DOMAIN timers') = 1
            /\ ArmedPeriods' = {intervalMs}
       /\ (lastOp = "start" /\ lastOp' = "tick") =>
            currentBeat' = JsMod(Fix(1), totalSubdivisions)]_vars

C7_Witness ==
    /\ lastOp = "tick"
    /\ ticksSinceStart = 1
    /\ currentBeat = Fix(1)
    /\ Cardinality(DOMAIN timers) = 1

\* C8: stop() goes from Running to Stopped; whenever isPlaying is false,
\* currentBeat is -1 and no timer is armed.
C8_StoppedIsIdle ==
    /\ [](~isPlaying => currentBeat = -Fix(1) /\ DOMAIN timers = {})
    /\ [][lastOp' = "stop" => isPlaying /\ ~isPlaying']_vars

C8_Witness ==
    /\ lastOp = "stop"
    /\ ~isPlaying
    /\ intervalRef # 0
    /\ DOMAIN timers = {}
    /\ currentBeat = -Fix(1)

\* C9: getSubdivisionPattern is true at every tick index under the five
\* simple kinds, exactly at index mod 4 in {0,2,3} under
\* "eighth-sixteenth-sixteenth" and exactly at index mod 4 in {0,1,2} under
\* "sixteenth-sixteenth-eighth".
C9_PatternMasks ==
    probe.result # "unset" =>
        LET i == probe.beatIndex \div Unit
            audible == probe.result = "true"
        IN CASE probe.subdivision = "eighth-sixteenth-sixteenth" ->
                   audible <=> (i % 4 \in {0, 2, 3})
             [] probe.subdivision = "sixteenth-sixteenth-eighth" ->
                   audible <=> (i % 4 \in {0, 1, 2})
             [] OTHER -> audible

C9_Witness ==
    /\ probe.subdivision = "eighth-sixteenth-sixteenth"
    /\ probe.beatIndex = Fix(5)
    /\ probe.result = "false"

\* C10: bpm is within [20, 300] in both versions, so intervalMs and the
\* period of every armed timer are positive.
C10_BpmInRange ==
    /\ bpm \in 20..300
    /\ intervalMs.num > 0 /\ intervalMs.den > 0
    /\ \A p \in ArmedPeriods : p.num > 0 /\ p.den > 0

C10_Witness ==
    /\ variant = "first"
    /\ lastOp = "bpm"
    /\ bpm = 300
    /\ isPlaying

\* C11: a timer fire whose playSound call fails (no context or player, or the
\* backend throws) still sets currentBeat to the next tick, leaves isPlaying
\* true and the timer armed; while Running one timer is always armed, so
\* later fires follow.
C11_PlaybackFailureKeepsClock ==
    /\ [](isPlaying => Cardinality(DOMAIN timers) = 1)
    /\ [][(lastOp' = "tick" /\ audio' \notin {"none", "played"}) =>
            /\ audio' \in {"silent", "logged"}
            /\ currentBeat' = JsMod(currentBeat + Fix(1), totalSubdivisions)
            /\ isPlaying'
            /\ timers' = timers
            /\ DOMAIN timers' # {}]_vars

C11_Witness ==
    /\ lastOp = "tick"
    /\ audio = "logged"
    /\ click = "click"
    /\ isPlaying
    /\ ticksSinceStart = 3
    /\ currentBeat = Fix(3)
    /\ DOMAIN timers # {}

\* C12: toggleAccent applied twice in a row to the same index leaves the
\* accent set it started from.
C12_DoubleToggleRestores ==
    probe.presses = 2 => accents = probe.origin

C12_Witness ==
    /\ probe.presses = 2
    /\ lastOp = "accent"
    /\ probe.indicator = 2
    /\ probe.origin = {Fix(0), Fix(2)}
    /\ accents = {Fix(0), Fix(2)}

\* The armed timers close over the values of the current render.
TimersInSync ==
    \A h \in DOMAIN timers :
        /\ timers[h].total = totalSubdivisions
        /\ timers[h].subdivision = subdivision
        /\ timers[h].accents = accents

\* C13: a time signature or subdivision change while Running keeps playback
\* going with one timer armed; the first fire after it shows tick 0, and
\* every fire advances modulo the new totalSubdivisions and calls playSound
\* by the new subdivision and the accent set of the time of the fire.
C13_ChangeWhileRunningRestarts ==
    /\ [](isPlaying => TimersInSync /\ Cardinality(DOMAIN timers) = 1)
    /\ [][/\ (lastOp' \in {"sig", "sub"} /\ isPlaying) =>
                isPlaying' /\ accents' = {Fix(0)}
          /\ (lastOp \in {"sig", "sub"} /\ lastOp' = "tick") =>
                /\ currentBeat' = Fix(0)
                /\ click' = ExpectedClick(Fix(0))
          /\ lastOp' = "tick" =>
                /\ currentBeat' = JsMod(currentBeat + Fix(1), totalSubdivisions)
                /\ click' = ExpectedClick(currentBeat')]_vars

C13_Witness ==
    /\ lastOp = "tick"
    /\ isPlaying
    /\ timeSignature = [top |-> 3, bottom |-> 4]
    /\ subdivision = "quarter"
    /\ currentBeat = Fix(0)
    /\ ticksSinceStart = -1
    /\ click = "accent"
    /\ TimersInSync

\* C14: in the first version every timer fire while Running uses the period,
\* the totalSubdivisions and the accent set of the time of the fire, and
\* leaves currentBeat within [0, totalSubdivisions).
C14_FirstVersionChangesAreLive ==
    (variant = "first" /\ lastOp = "tick") =>
        /\ \A h \in DOMAIN timers :
              /\ timers[h].interval = intervalMs
              /\ timers[h].total = totalSubdivisions
              /\ timers[h].accents = accents
        /\ Fix(0) <= currentBeat /\ currentBeat < totalSubdivisions

\* C15: in the final version currentBeat is -1 or an integer in
\* [0, totalSubdivisions).
C15_TickWithinMeasure ==
    \/ currentBeat = -Fix(1)
    \/ /\ IsInteger(currentBeat)
       /\ Fix(0) <= currentBeat
       /\ currentBeat < totalSubdivisions

\* C16: in the final version at most one timer is armed, one is armed exactly
\* when isPlaying is true, and intervalRef names it.
C16_OneTimerIffPlaying ==
    /\ Cardinality(DOMAIN timers) <= 1
    /\ (DOMAIN timers # {}) <=> isPlaying
    /\ isPlaying => DOMAIN timers = {intervalRef}

C16_Witness ==
    /\ isPlaying
    /\ lastOp = "accent"
    /\ bpm = MinimumValue
    /\ timeSignature = [top |-> 6, bottom |-> 8]
    /\ subdivision = "eighth"
    /\ accents = {}
    /\ currentBeat = -Fix(1)
    /\ Cardinality(DOMAIN timers) = 1

\* C17: in the final version, under a compound subdivision every index of
\* the accent set is an audible tick of the pattern.
C17_AccentsAreAudible ==
    subdivision \in {"eighth-sixteenth-sixteenth", "sixteenth-sixteenth-eighth"} =>
        \A a \in accents : getSubdivisionPattern(subdivision, a, totalSubdivisions)

C17_Witness ==
    /\ lastOp = "accent"
    /\ subdivision = "eighth-sixteenth-sixteenth"
    /\ timeSignature = [top |-> 7, bottom |-> 8]
    /\ accents = {Fix(6)}

====
